---- MODULE Spec2Model ----
\* Model of src/mainfreight.py: the batch job main() that reconciles ERP
\* pickings with the Mainfreight tracking API, its tracking client
\* mf_get_tracking(), and the two log sinks behind log_all().
\*
\* Remote replies (XML-RPC reads, the HTTP response) are inputs drawn with \E
\* at the step that makes the call.  The records returned by the one
\* stock.picking read (line 321) are drawn one by one as the loop reaches
\* them: nothing between the read and the iteration observes them.
EXTENDS Naturals, Integers, Sequences, FiniteSets, TLC

VARIABLES
    pc,         \* position of main()
    uid,        \* line 279: session id, 0 when falsy
    picking_ids,\* line 300: result of the search
    idx,        \* position of the for loop of line 332 in pickings
    loc,        \* the loop body's local variables for the current picking
    log,        \* rows of tracking_runs (SQLiteSink), in insertion order
    calls,      \* history: every remote call issued, in order
    tstate,     \* ERP: stock.tpl.queue state per transfer id ("absent": no such record)
    links,      \* ERP: stock.picking.tpl_shipment_ids per picking id
    shipments,  \* ERP: tpl.shipment records, id = position
    gs,         \* the GSheetsSink, on = FALSE when gs is None
    exit_code   \* -1 while running, else the process exit code

vars == <<pc, uid, picking_ids, idx, loc, log, calls, tstate, links, shipments, gs, exit_code>>

\* ---------------------------------------------------------------- bounds
NumPickings == 2

\* pickings with a transfer still 'sent' when a run with the sheet sink starts
SheetCandidates == 1

PickingIds == 1..NumPickings
\* picking p owns transfers 2p-1 and 2p
TransferIds == 1..(2 * NumPickings)

\* ---------------------------------------------------------------- values
\* Python None / Odoo False for plain text fields
NoneV == "None"

\* `not x` for a text value
Falsy(s) == s = NoneV \/ s = ""

\* `a or b`
Or(a, b) == IF Falsy(a) THEN b ELSE a

\* region_code / service_code are sequences of characters, so that strip()
\* is computed; <<>> stands for both "" and False (`x or ""` merges them).
IsSpace(c) == c = " "

RECURSIVE LStrip(_)
LStrip(s) == IF s # <<>> /\ IsSpace(Head(s)) THEN LStrip(Tail(s)) ELSE s

RECURSIVE RStrip(_)
RStrip(s) ==
    IF s # <<>> /\ IsSpace(s[Len(s)]) THEN RStrip(SubSeq(s, 1, Len(s) - 1)) ELSE s

Strip(s) == RStrip(LStrip(s))

\* first giving the last element
firstAsLast(seq) == IF seq # <<>> THEN seq[Len(seq)] ELSE 0

\* lines 253-254; 0 is None
first(seq) == IF seq # <<>> THEN seq[1] ELSE 0

\* ---------------------------------------------------------------- log sinks
\* One row.  The message text is its kind, the number it embeds (HTTP status,
\* line count; 0 when none) and the exception text it embeds ("" when none).
Entry(pid, ref, region, service, status, kind, arg, detail, tn, url, sm) ==
    [picking_id |-> pid, reference |-> ref, region |-> region, service_type |-> service,
     status |-> status, message |-> kind, arg |-> arg, detail |-> detail,
     tracking_number |-> tn, tracking_url |-> url, shipping_method |-> sm]

\* log_all(db, gs, status=..., message=...) without a picking
RunEntry(status, kind) ==
    Entry(0, NoneV, <<>>, <<>>, status, kind, 0, "", NoneV, NoneV, NoneV)

\* log_all(..., picking_id, [reference], status, message): lines 341-411
EarlyEntry(status, kind) ==
    Entry(loc.picking_id, loc.reference, <<>>, <<>>, status, kind, 0, "",
          NoneV, NoneV, NoneV)

\* log_all(..., region, service_type, status, message): lines 419-476
RoutedEntry(l, status, kind, arg, detail) ==
    Entry(l.picking_id, l.reference, l.region, l.service_type, status, kind, arg, detail,
          NoneV, NoneV, NoneV)

\* log_all(..., tracking_number, tracking_url, shipping_method): lines 508-516
TrackedEntry(l, status, kind, arg) ==
    Entry(l.picking_id, l.reference, l.region, l.service_type, status, kind, arg, "",
          l.tracking_number, l.tracking_url, l.shipping_method)

\* GSheetsSink.log row: every column through `x or ""`
GsRow(e) ==
    [e EXCEPT !.reference = Or(e.reference, ""),
              !.tracking_number = Or(e.tracking_number, ""),
              !.tracking_url = Or(e.tracking_url, ""),
              !.shipping_method = Or(e.shipping_method, "")]

\* the sink object: on is FALSE when gs is None; batch is self.batch and sheet
\* the rows of the worksheet below its header; failed records that an
\* append_rows call raised
GSheetsSink(on, batch_size) ==
    [on |-> on, batch_size |-> batch_size, batch |-> <<>>, sheet |-> <<>>, failed |-> FALSE]

\* lines 262 and 274: no sink
GsNone == GSheetsSink(FALSE, 1)

\* GSheetsSink.flush: append_rows may raise (appendOk = FALSE), and then the
\* batch is kept
GsFlush(g, appendOk) ==
    IF g.batch = <<>> THEN g
    ELSE IF appendOk THEN [g EXCEPT !.sheet = g.sheet \o g.batch, !.batch = <<>>]
    ELSE [g EXCEPT !.failed = TRUE]

\* GSheetsSink.log
GsLog(g, e, appendOk) ==
    LET g1 == [g EXCEPT !.batch = Append(g.batch, GsRow(e))]
    IN IF Len(g1.batch) >= g1.batch_size THEN GsFlush(g1, appendOk) ELSE g1

\* LogAll writing the SQLite row only when the sheet accepted its rows
LogAllSheetFirst(e) ==
    IF gs.on
    THEN \E appendOk \in BOOLEAN :
            /\ gs' = GsLog(gs, e, appendOk)
            /\ log' = IF appendOk THEN Append(log, e) ELSE log
    ELSE /\ log' = Append(log, e)
         /\ gs' = gs

\* log_all: the SQLite row first, then the optional sheet row, whose failure
\* is swallowed.  The local SQLite insert is taken to succeed.
LogAll(e) ==
    /\ log' = Append(log, e)
    /\ IF gs.on
       THEN \E appendOk \in BOOLEAN : gs' = GsLog(gs, e, appendOk)
       ELSE gs' = gs

\* one remote call: the picking being processed (0 outside the loop), the
\* operation, the record id it targets, and whether it returned (ok) or raised
Call(op, arg, ok) == [picking_id |-> loc.picking_id, op |-> op, arg |-> arg, ok |-> ok]

Issue(op, arg, ok) == calls' = Append(calls, Call(op, arg, ok))

\* ---------------------------------------------------------------- mf_get_tracking
\* eventDateTime strings are token sequences <<date, separator, time>>;
\* <<>> is an absent or empty value.
IsoDates == {"2025-08-12"}

IsoTimes == {"14:23:00"}

\* datetime.fromisoformat accepts a date, or a date, one separator and a time
IsoParsable(d) ==
    /\ Len(d) \in {1, 3}
    /\ d[1] \in IsoDates
    /\ Len(d) = 3 => d[3] \in IsoTimes

\* .strftime("%Y-%m-%d %H:%M:%S") of the parsed value
Strftime(d) == <<d[1], " ", IF Len(d) = 3 THEN d[3] ELSE "00:00:00">>

\* RaisesForStatus raising for server errors only
RaisesForServerError(status) == 500 <= status /\ status < 600

\* Response.raise_for_status(): HTTPError for a 4xx or a 5xx status
RaisesForStatus(status) == 400 <= status /\ status < 600

\* what the call produced: out is "return", "http_error" (requests.HTTPError,
\* with its status) or "error" (any other exception, detail naming it)
MfResult(out, status, detail, tn, url, sm, ds) ==
    [out |-> out, status |-> status, detail |-> detail, tracking_number |-> tn,
     tracking_url |-> url, shipping_method |-> sm, date_shipped |-> ds]

MfRaise(out, status, detail) == MfResult(out, status, detail, NoneV, NoneV, NoneV, <<>>)

MfReturn(tn, url, sm, ds) == MfResult("return", 0, "", tn, url, sm, ds)

\* lines 239-243
CarrierFields(item) ==
    LET cr == IF item.cr.kind = "list" THEN item.cr.items ELSE <<>>
    IN IF item.cr.kind # "other" /\ cr # <<>>
       THEN IF cr[1].null
            THEN [reference |-> NoneV, trackingUrl |-> NoneV, carrierName |-> NoneV]
            ELSE [reference |-> cr[1].reference, trackingUrl |-> cr[1].trackingUrl,
                  carrierName |-> cr[1].carrierName]
       ELSE [reference |-> NoneV, trackingUrl |-> NoneV, carrierName |-> NoneV]

\* lines 197-251
mf_get_tracking(resp) ==
    IF resp.net # "ok" THEN MfRaise("error", 0, "timeout")
    ELSE IF RaisesForStatus(resp.status) THEN MfRaise("http_error", resp.status, "")
    ELSE IF resp.body.json = "invalid" THEN MfRaise("error", 0, "json")
    ELSE IF resp.body.json # "list" \/ resp.body.items = <<>>
         THEN MfReturn(NoneV, NoneV, NoneV, <<>>)
    ELSE LET item == resp.body.items[1]
         IN IF ~item.obj THEN MfRaise("error", 0, "attribute")
            ELSE LET c == CarrierFields(item)
                     ev == IF item.events.kind = "list" THEN item.events.items ELSE <<>>
                 IN IF item.events.kind # "other" /\ ev # <<>>
                    THEN IF ev[1].null THEN MfRaise("error", 0, "attribute")
                         ELSE IF ev[1].eventDateTime = <<>>
                              THEN MfReturn(c.reference, c.trackingUrl, c.carrierName, <<>>)
                         ELSE IF IsoParsable(ev[1].eventDateTime)
                              THEN MfReturn(c.reference, c.trackingUrl, c.carrierName,
                                            Strftime(ev[1].eventDateTime))
                         ELSE MfRaise("error", 0, "value")
                    ELSE MfReturn(c.reference, c.trackingUrl, c.carrierName, <<>>)

\* ---- replies of the tracking provider
CrEntry(null, ref, url, name) ==
    [null |-> null, reference |-> ref, trackingUrl |-> url, carrierName |-> name]

CrEntries ==
    {CrEntry(FALSE, "1Z", "https://ups/1Z", "UPS"),
     CrEntry(FALSE, "1Z", NoneV, "UPS"),
     CrEntry(TRUE, NoneV, NoneV, NoneV)}

CrValues ==
    {[kind |-> "absent", items |-> <<>>], [kind |-> "list", items |-> <<>>]}
    \cup {[kind |-> "list", items |-> <<e>>] : e \in CrEntries}

EventDates == {<<"2025-08-12", "T", "14:23:00">>, <<"12/08/2025">>}

EventValues ==
    {[kind |-> "absent", items |-> <<>>]}
    \cup {[kind |-> "list", items |-> <<[null |-> FALSE, eventDateTime |-> d]>>] :
            d \in EventDates}

NoItem == [obj |-> FALSE, cr |-> [kind |-> "absent", items |-> <<>>],
           events |-> [kind |-> "absent", items |-> <<>>]]

Items == {NoItem} \cup {[obj |-> TRUE, cr |-> c, events |-> e] : c \in CrValues, e \in EventValues}

Bodies ==
    {[json |-> "invalid", items |-> <<>>], [json |-> "object", items |-> <<>>],
     [json |-> "list", items |-> <<>>]}
    \cup {[json |-> "list", items |-> <<i>>] : i \in Items}

NoBody == [json |-> "invalid", items |-> <<>>]

\* a transport failure; 4xx and 5xx statuses; a 3xx status that requests hands
\* back as the final response (no Location to follow, no body); 200 with
\* every body
Responses ==
    {[net |-> "timeout", status |-> 0, body |-> NoBody]}
    \cup {[net |-> "ok", status |-> s, body |-> NoBody] : s \in {404, 503}}
    \cup {[net |-> "ok", status |-> 300, body |-> NoBody]}
    \cup {[net |-> "ok", status |-> 200, body |-> b] : b \in Bodies}

NoResponse == [net |-> "none", status |-> 0, body |-> NoBody]

\* ---------------------------------------------------------------- move lines
\* product_id of a move line: False, or [id, label]
MoveLine(id, qty) == [product_id |-> id, qty_done |-> qty]

\* replies of the search_read of line 452, whose domain keeps qty_done > 0;
\* id 0 is product_id False
MoveLineReplies ==
    {<<>>, <<MoveLine(0, 1)>>, <<MoveLine(42, 1), MoveLine(42, 2)>>,
     <<MoveLine(41, 1), MoveLine(0, 2), MoveLine(42, 2)>>}

\* line 468
ProductId(prod) == prod

\* AddQty keeping the last quantity of a product instead of the sum
AddQtyKeepsLast(d, pid, q) ==
    IF \E i \in 1..Len(d) : d[i].product_id = pid
    THEN [i \in 1..Len(d) |->
            IF d[i].product_id = pid THEN [d[i] EXCEPT !.qty = q] ELSE d[i]]
    ELSE Append(d, [product_id |-> pid, qty |-> q])

\* qty_by_product[pid] += q on a dict kept in insertion order
AddQty(d, pid, q) ==
    IF \E i \in 1..Len(d) : d[i].product_id = pid
    THEN [i \in 1..Len(d) |->
            IF d[i].product_id = pid THEN [d[i] EXCEPT !.qty = @ + q] ELSE d[i]]
    ELSE Append(d, [product_id |-> pid, qty |-> q])

\* lines 465-470
RECURSIVE Aggregate(_, _)
Aggregate(d, mls) ==
    IF mls = <<>> THEN d
    ELSE LET pid == ProductId(Head(mls).product_id)
         IN Aggregate(IF pid # 0 THEN AddQty(d, pid, Head(mls).qty_done) ELSE d, Tail(mls))

\* lines 480-484
LinesCmds(d) == SelectSeq(d, LAMBDA x : x.qty > 0)

\* NothingToShip with the emptiness test left out
NothingToShipNever(d) == FALSE

\* line 472
NothingToShip(d) == d = <<>>

\* ---------------------------------------------------------------- main()
MAX_PICKINGS == 50

\* a stock.picking record as read at line 321
Record(sale_id, origin, name, transfers) ==
    [sale_id |-> sale_id, origin |-> origin, name |-> name, tpl_transfer_ids |-> transfers]

NoRecord == Record(<<>>, NoneV, NoneV, <<>>)

\* the query string of line 196
Params(service_type, reference, region) ==
    [serviceType |-> service_type, reference |-> reference, region |-> region]

NoParams == Params(<<>>, NoneV, <<>>)

\* the loop body's locals before their first assignment.  p is the record
\* when the state holds it (NoRecord when it is drawn as the loop binds it),
\* and blank abstracts it: TRUE when its sale label, origin and name are all
\* falsy.
NoLoc ==
    [picking_id |-> 0, p |-> NoRecord, blank |-> FALSE, reference |-> NoneV, transfer_id |-> 0,
     params |-> NoParams,
     provider |-> <<>>, provider_id |-> 0, wh |-> <<>>, wh_id |-> 0,
     region_code |-> <<>>, service_code |-> <<>>, region |-> <<>>, service_type |-> <<>>,
     resp |-> NoResponse, mf |-> MfRaise("none", 0, ""),
     tracking_number |-> NoneV, tracking_url |-> NoneV, shipping_method |-> NoneV,
     date_shipped |-> <<>>, move_lines |-> <<>>, qty_by_product |-> <<>>,
     lines_cmds |-> <<>>, shipment_id |-> 0]

Init ==
    /\ pc = "auth"
    /\ uid = 0
    /\ picking_ids = <<>>
    /\ idx = 0
    /\ loc = NoLoc
    /\ log = <<>>
    /\ calls = <<>>
    /\ tstate = [t \in TransferIds |-> "sent"]
    /\ links = [p \in PickingIds |-> {}]
    /\ shipments = <<>>
    /\ gs = GsNone
    /\ exit_code = -1

\* Abort without the run-level entry
AbortSilently(kind) ==
    /\ pc' = "exited"
    /\ exit_code' = 1
    /\ UNCHANGED <<log, gs>>

\* sys.exit(1) after the run-level entry
Abort(kind) ==
    /\ LogAll(RunEntry("error", kind))
    /\ pc' = "exited"
    /\ exit_code' = 1

\* lines 277-288
Authenticate ==
    /\ pc = "auth"
    /\ \E reply \in {"raise", "no_uid", "uid"} :
        /\ Issue("authenticate", 0, reply # "raise")
        /\ IF reply = "uid"
           THEN /\ uid' = 2
                /\ pc' = "search"
                /\ UNCHANGED <<log, gs, exit_code>>
           ELSE /\ Abort(IF reply = "raise" THEN "auth_error" ELSE "auth_no_uid")
                /\ uid' = 0
    /\ UNCHANGED <<picking_ids, idx, loc, tstate, links, shipments>>

\* Selectable without the tpl_shipment_ids condition of line 296
SelectableIgnoringLinks(p) == \E t \in {2 * p - 1, 2 * p} : tstate[t] = "sent"

\* Selectable without the state condition of line 295
SelectableAnyState(p) ==
    /\ \E t \in {2 * p - 1, 2 * p} : tstate[t] \in {"sent", "done"}
    /\ links[p] = {}

\* the domain of lines 293-298 on the ERP's records; milestone and company
\* are not changed by the job and are part of the reply drawn in SearchPickings
Selectable(p) ==
    /\ \E t \in {2 * p - 1, 2 * p} : tstate[t] = "sent"
    /\ links[p] = {}

\* ascending sequence of the elements of a set of ids
RECURSIVE AsSeq(_)
AsSeq(S) ==
    IF S = {} THEN <<>>
    ELSE LET m == CHOOSE x \in S : \A y \in S : x <= y
         IN <<m>> \o AsSeq(S \ {m})

\* gs.flush() guarded by try/except: lines 314-316 and 520-524
FinalFlush(g) ==
    IF g.on THEN \E appendOk \in BOOLEAN : gs' = GsFlush(g, appendOk) ELSE gs' = g

\* lines 299-317
SearchPickings ==
    /\ pc = "search"
    /\ \E raise \in BOOLEAN, S \in SUBSET {p \in PickingIds : Selectable(p)} :
        /\ Issue("search", 0, ~raise)
        /\ IF raise
           THEN /\ Abort("search_error")
                /\ picking_ids' = picking_ids
           ELSE /\ Cardinality(S) <= MAX_PICKINGS
                /\ picking_ids' = AsSeq(S)
                /\ IF S = {}
                   THEN /\ log' = Append(log, RunEntry("skip", "no_pickings"))
                        /\ \E ok1 \in BOOLEAN :
                               FinalFlush(IF gs.on
                                          THEN GsLog(gs, RunEntry("skip", "no_pickings"), ok1)
                                          ELSE gs)
                        /\ pc' = "done"
                        /\ exit_code' = 0
                   ELSE /\ pc' = "read"
                        /\ UNCHANGED <<log, gs, exit_code>>
    /\ UNCHANGED <<uid, idx, loc, tstate, links, shipments>>

\* lines 320-330
ReadPickings ==
    /\ pc = "read"
    /\ \E raise \in BOOLEAN :
        /\ Issue("read_pickings", 0, ~raise)
        /\ IF raise
           THEN Abort("read_pickings_error")
           ELSE /\ pc' = "loop"
                /\ UNCHANGED <<log, gs, exit_code>>
    /\ UNCHANGED <<uid, picking_ids, idx, loc, tstate, links, shipments>>

\* Continue with the log_all call left out
ContinueSilently(e) ==
    /\ pc' = "loop"
    /\ UNCHANGED <<log, gs>>

\* Continue ending the run instead of going back to the loop
ContinueThenExit(e) ==
    /\ LogAll(e)
    /\ pc' = "exited"

\* log_all(...) then `continue`, or the end of the loop body: the candidate is
\* finished
Continue(e) ==
    /\ LogAll(e)
    /\ pc' = "loop"

\* ---- the fields of one stock.picking record
SaleIds == {<<>>, <<7>>, <<7, "">>, <<7, "SO01234">>}

Origins == {NoneV, "ORIGIN"}

Names == {NoneV, "WH/OUT/1"}

TransferLists(p) == {<<>>, <<2 * p - 1>>, <<2 * p - 1, 2 * p>>}

\* Reference falling back to a constant when all three fields are falsy
ReferenceWithDefault(sale_id, origin, name) ==
    LET sale_label == IF Len(sale_id) = 2 THEN sale_id[2] ELSE NoneV
    IN Or(Or(Or(sale_label, origin), name), "unknown")

\* Reference taking the origin before the sale label
ReferenceOriginFirst(sale_id, origin, name) ==
    LET sale_label == IF Len(sale_id) = 2 THEN sale_id[2] ELSE NoneV
    IN Or(Or(origin, sale_label), name)

\* lines 334-337
Reference(sale_id, origin, name) ==
    LET sale_label == IF Len(sale_id) = 2 THEN sale_id[2] ELSE NoneV
    IN Or(Or(sale_label, origin), name)

\* lines 333-349: the head of the loop body for the record p of picking_id;
\* fresh is the locals of the new iteration
ProcessRecord(picking_id, p, fresh) ==
    LET reference == Reference(p.sale_id, p.origin, p.name)
        transfer_id == first(p.tpl_transfer_ids)
        blank == /\ (Len(p.sale_id) # 2 \/ Falsy(p.sale_id[2]))
                 /\ Falsy(p.origin)
                 /\ Falsy(p.name)
        l == [fresh EXCEPT !.picking_id = picking_id, !.blank = blank,
                           !.reference = reference]
    IN IF Falsy(reference)
       THEN /\ loc' = l
            /\ Continue(Entry(picking_id, NoneV, <<>>, <<>>, "skip", "no_reference", 0, "",
                              NoneV, NoneV, NoneV))
       ELSE IF transfer_id = 0
       THEN /\ loc' = l
            /\ Continue(Entry(picking_id, reference, <<>>, <<>>, "skip", "no_transfers",
                              0, "", NoneV, NoneV, NoneV))
       ELSE /\ loc' = [l EXCEPT !.transfer_id = transfer_id]
            /\ pc' = "queue"
            /\ UNCHANGED <<log, gs>>

\* lines 332-349, the record being drawn as the loop binds it
NextPicking ==
    /\ pc = "loop"
    /\ idx < Len(picking_ids)
    /\ idx' = idx + 1
    /\ \E sale_id \in SaleIds, origin \in Origins, name \in Names,
          transfers \in TransferLists(picking_ids[idx + 1]) :
        ProcessRecord(picking_ids[idx + 1], Record(sale_id, origin, name, transfers), NoLoc)
    /\ UNCHANGED <<uid, picking_ids, calls, tstate, links, shipments, exit_code>>

\* ---- (id, label) references as the ERP returns them: False, a malformed
\* list, or a pair
RelRefs(id) == {<<>>, <<id>>, <<id, "label">>}

\* IsPair accepting any non-empty list
IsPairLoose(r) == Len(r) >= 1

\* isinstance(x, list) and len(x) == 2
IsPair(r) == Len(r) = 2

\* lines 351-370
ReadQueue ==
    /\ pc = "queue"
    /\ \E raise \in BOOLEAN, provider \in RelRefs(5) :
        /\ Issue("read_queue", loc.transfer_id, ~raise)
        /\ IF raise
           THEN /\ Continue(EarlyEntry("error", "queue_err"))
                /\ loc' = loc
           ELSE IF ~IsPair(provider)
           THEN /\ Continue(EarlyEntry("skip", "no_provider"))
                /\ loc' = [loc EXCEPT !.provider = provider]
           ELSE /\ loc' = [loc EXCEPT !.provider = provider, !.provider_id = provider[1]]
                /\ pc' = "provider"
                /\ UNCHANGED <<log, gs>>
    /\ UNCHANGED <<uid, picking_ids, idx, tstate, links, shipments, exit_code>>

\* lines 372-391
ReadProvider ==
    /\ pc = "provider"
    /\ \E raise \in BOOLEAN, wh \in RelRefs(9) :
        /\ Issue("read_provider", loc.provider_id, ~raise)
        /\ IF raise
           THEN /\ Continue(EarlyEntry("error", "provider_err"))
                /\ loc' = loc
           ELSE IF ~IsPair(wh)
           THEN /\ Continue(EarlyEntry("skip", "no_warehouse"))
                /\ loc' = [loc EXCEPT !.wh = wh]
           ELSE /\ loc' = [loc EXCEPT !.wh = wh, !.wh_id = wh[1]]
                /\ pc' = "warehouse"
                /\ UNCHANGED <<log, gs>>
    /\ UNCHANGED <<uid, picking_ids, idx, tstate, links, shipments, exit_code>>

\* raw region_code and service_code values of a warehouse record
RegionCodes == {<<>>, <<" ">>, <<" ", "U", "S">>}

ServiceCodes == {<<>>, <<" ", " ">>, <<"W", "C", "A", " ">>}

\* line 407
RoutingMissing(region, service_type) == region = <<>> \/ service_type = <<>>

\* lines 393-411
ReadWarehouse ==
    /\ pc = "warehouse"
    /\ \E raise \in BOOLEAN, region_code \in RegionCodes, service_code \in ServiceCodes :
        LET region == Strip(region_code)
            service_type == Strip(service_code)
            l == [loc EXCEPT !.region_code = region_code, !.service_code = service_code,
                             !.region = region, !.service_type = service_type]
        IN /\ Issue("read_warehouse", loc.wh_id, ~raise)
           /\ IF raise
              THEN /\ Continue(EarlyEntry("error", "warehouse_err"))
                   /\ loc' = loc
              ELSE IF RoutingMissing(region, service_type)
              THEN /\ Continue(EarlyEntry("skip", "no_region_service"))
                   /\ loc' = l
              ELSE /\ loc' = l
                   /\ pc' = "tracking"
                   /\ UNCHANGED <<log, gs>>
    /\ UNCHANGED <<uid, picking_ids, idx, tstate, links, shipments, exit_code>>

\* NoTrackingInfo testing the tracking number alone
NoTrackingInfoNumberOnly(mf) == Falsy(mf.tracking_number)

\* line 429
NoTrackingInfo(mf) == Falsy(mf.tracking_url) \/ Falsy(mf.tracking_number)

\* lines 413-434
CallTracking ==
    /\ pc = "tracking"
    /\ \E resp \in Responses :
        LET mf == mf_get_tracking(resp)
            l == [loc EXCEPT !.params = Params(loc.service_type, loc.reference, loc.region),
                             !.resp = resp, !.mf = mf]
            unpacked == [l EXCEPT !.tracking_number = mf.tracking_number,
                                  !.tracking_url = mf.tracking_url,
                                  !.shipping_method = mf.shipping_method,
                                  !.date_shipped = mf.date_shipped]
        IN /\ Issue("mf_get_tracking", 0, mf.out = "return")
           /\ IF mf.out = "http_error"
              THEN /\ loc' = l
                   /\ Continue(RoutedEntry(l, "error", "mf_http", mf.status, ""))
              ELSE IF mf.out = "error"
              THEN /\ loc' = l
                   /\ Continue(RoutedEntry(l, "error", "mf_error", 0, mf.detail))
              ELSE IF NoTrackingInfo(mf)
              THEN /\ loc' = unpacked
                   /\ Continue(RoutedEntry(l, "error", "no_tracking", 0, ""))
              ELSE /\ loc' = unpacked
                   /\ pc' = "markdone"
                   /\ UNCHANGED <<log, gs>>
    /\ UNCHANGED <<uid, picking_ids, idx, tstate, links, shipments, exit_code>>

\* OnWriteQueueError without its `continue`
OnWriteQueueErrorNoContinue ==
    /\ LogAll(RoutedEntry(loc, "error", "write_queue_err", 0, ""))
    /\ pc' = "movelines"

\* lines 443-448: the handler of a failed stock.tpl.queue write
OnWriteQueueError ==
    Continue(RoutedEntry(loc, "error", "write_queue_err", 0, ""))

\* lines 436-448.  A call that raised changed nothing in the ERP.
MarkDone ==
    /\ pc = "markdone"
    /\ \E raise \in BOOLEAN :
        /\ Issue("write_queue", loc.transfer_id, ~raise)
        /\ IF raise
           THEN /\ OnWriteQueueError
                /\ tstate' = tstate
           ELSE /\ tstate' = [tstate EXCEPT ![loc.transfer_id] = "done"]
                /\ pc' = "movelines"
                /\ UNCHANGED <<log, gs>>
    /\ UNCHANGED <<uid, picking_ids, idx, loc, links, shipments, exit_code>>

\* lines 450-484
ReadMoveLines ==
    /\ pc = "movelines"
    /\ \E raise \in BOOLEAN, move_lines \in MoveLineReplies :
        LET qty_by_product == Aggregate(<<>>, move_lines)
            l == [loc EXCEPT !.move_lines = move_lines, !.qty_by_product = qty_by_product]
        IN /\ Issue("read_move_lines", 0, ~raise)
           /\ IF raise
              THEN /\ Continue(RoutedEntry(loc, "error", "move_lines_err", 0, ""))
                   /\ loc' = loc
              ELSE IF NothingToShip(qty_by_product)
              THEN /\ Continue(RoutedEntry(loc, "skip", "no_qty", 0, ""))
                   /\ loc' = l
              ELSE /\ loc' = [l EXCEPT !.lines_cmds = LinesCmds(qty_by_product)]
                   /\ pc' = "create"
                   /\ UNCHANGED <<log, gs>>
    /\ UNCHANGED <<uid, picking_ids, idx, tstate, links, shipments, exit_code>>

\* ShipmentVals naming the shipment after the reference sent to the provider
ShipmentValsNamedByReference(l) ==
    [name |-> l.reference, tracking_url |-> l.tracking_url,
     tpl_code |-> Or(l.shipping_method, ""), ship_date |-> l.date_shipped,
     shipment_line_ids |-> l.lines_cmds]

\* lines 487-493
ShipmentVals(l) ==
    [name |-> l.tracking_number, tracking_url |-> l.tracking_url,
     tpl_code |-> Or(l.shipping_method, ""), ship_date |-> l.date_shipped,
     shipment_line_ids |-> l.lines_cmds]

\* OnCreateLinkError putting the transfer back to "sent"
OnCreateLinkErrorRollback ==
    /\ Continue(TrackedEntry(loc, "error", "create_link_err", 0))
    /\ tstate' = [tstate EXCEPT ![loc.transfer_id] = "sent"]

\* lines 505-511: the one handler of a failed create and of a failed link
\* write; it writes nothing back to the transfer
OnCreateLinkError ==
    /\ Continue(TrackedEntry(loc, "error", "create_link_err", 0))
    /\ tstate' = tstate

\* lines 495-499, and 505-511 when the create raises
CreateShipment ==
    /\ pc = "create"
    /\ \E raise \in BOOLEAN :
        /\ Issue("create_shipment", 0, ~raise)
        /\ IF raise
           THEN /\ OnCreateLinkError
                /\ UNCHANGED <<loc, shipments>>
           ELSE /\ shipments' = Append(shipments, ShipmentVals(loc))
                /\ loc' = [loc EXCEPT !.shipment_id = Len(shipments) + 1]
                /\ pc' = "link"
                /\ UNCHANGED <<log, gs, tstate>>
    /\ UNCHANGED <<uid, picking_ids, idx, links, exit_code>>

\* lines 500-504 and 513-516, and 505-511 when the write raises
LinkShipment ==
    /\ pc = "link"
    /\ \E raise \in BOOLEAN :
        /\ Issue("link_shipment", loc.shipment_id, ~raise)
        /\ IF raise
           THEN /\ OnCreateLinkError
                /\ links' = links
           ELSE /\ links' = [links EXCEPT ![loc.picking_id] = @ \cup {loc.shipment_id}]
                /\ Continue(TrackedEntry(loc, "ok", "linked", Len(loc.lines_cmds)))
                /\ tstate' = tstate
    /\ UNCHANGED <<uid, picking_ids, idx, loc, shipments, exit_code>>

\* lines 518-524
Finish ==
    /\ pc = "loop"
    /\ idx = Len(picking_ids)
    /\ FinalFlush(gs)
    /\ pc' = "done"
    /\ exit_code' = 0
    /\ UNCHANGED <<uid, picking_ids, idx, loc, log, calls, tstate, links, shipments>>

Next ==
    \/ Authenticate
    \/ SearchPickings
    \/ ReadPickings
    \/ NextPicking
    \/ ReadQueue
    \/ ReadProvider
    \/ ReadWarehouse
    \/ CallTracking
    \/ MarkDone
    \/ ReadMoveLines
    \/ CreateShipment
    \/ LinkShipment
    \/ Finish

Spec == Init /\ [][Next]_vars

\* ---------------------------------------------------------------- one record
\* The loop body on one record held in the state: main() after the read of
\* line 321 returned the record p of picking 1, p ranging over every shape of
\* its four fields.
RecSaleIds == {<<>>, <<7>>, <<7, NoneV>>, <<7, "">>, <<7, "SO01234">>, <<7, "SO01234", "x">>}

RecOrigins == {NoneV, "", "ORIGIN"}

RecNames == {NoneV, "", "WH/OUT/1"}

\* picking 1 owns transfers 1 and 2, in either order
RecTransferLists == {<<>>, <<1>>, <<2>>, <<1, 2>>, <<2, 1>>}

Records ==
    {Record(s, o, n, t) : s \in RecSaleIds, o \in RecOrigins, n \in RecNames,
                          t \in RecTransferLists}

\* lines 277-330 done: authenticated, one picking found and read
InitRecord ==
    /\ pc = "loop"
    /\ uid = 2
    /\ picking_ids = <<1>>
    /\ idx = 0
    /\ \E p \in Records : loc = [NoLoc EXCEPT !.p = p]
    /\ log = <<>>
    /\ calls = <<[picking_id |-> 0, op |-> "authenticate", arg |-> 0, ok |-> TRUE],
                 [picking_id |-> 0, op |-> "search", arg |-> 0, ok |-> TRUE],
                 [picking_id |-> 0, op |-> "read_pickings", arg |-> 0, ok |-> TRUE]>>
    /\ tstate = [t \in TransferIds |-> "sent"]
    /\ links = [q \in PickingIds |-> {}]
    /\ shipments = <<>>
    /\ gs = GsNone
    /\ exit_code = -1

\* lines 332-349 on the record held in loc.p
NextRecord ==
    /\ pc = "loop"
    /\ idx < Len(picking_ids)
    /\ idx' = idx + 1
    /\ ProcessRecord(picking_ids[idx + 1], loc.p, [NoLoc EXCEPT !.p = loc.p])
    /\ UNCHANGED <<uid, picking_ids, calls, tstate, links, shipments, exit_code>>

NextOnRecord ==
    \/ NextRecord
    \/ ReadQueue
    \/ ReadProvider
    \/ ReadWarehouse
    \/ CallTracking
    \/ MarkDone
    \/ ReadMoveLines
    \/ CreateShipment
    \/ LinkShipment
    \/ Finish

SpecRecord == InitRecord /\ [][NextOnRecord]_vars

\* ---------------------------------------------------------------- a later run
\* A run that starts on the ERP as earlier runs left it: every picking is
\* either untouched, or was brought to 'ok' by an earlier run, which wrote
\* its first transfer done (line 441), created a shipment (496) and linked it
\* (503), and left its row in tracking_runs (514).
IndexIn(seq, x) == CHOOSE i \in 1..Len(seq) : seq[i] = x

\* what an earlier run created for a picking it brought to 'ok'
EarlierShipment ==
    [name |-> "1Z", tracking_url |-> "https://ups/1Z", tpl_code |-> "UPS",
     ship_date |-> <<>>, shipment_line_ids |-> <<[product_id |-> 42, qty |-> 3]>>]

EarlierOkEntry(p) ==
    Entry(p, "SO01234", <<"U", "S">>, <<"W", "C", "A">>, "ok", "linked", 1, "",
          "1Z", "https://ups/1Z", "UPS")

InitLater ==
    /\ pc = "auth"
    /\ uid = 0
    /\ picking_ids = <<>>
    /\ idx = 0
    /\ loc = NoLoc
    /\ calls = <<>>
    /\ \E L \in SUBSET PickingIds :
          LET linked == AsSeq(L)
          IN /\ tstate = [t \in TransferIds |->
                            IF \E p \in L : t = 2 * p - 1 THEN "done" ELSE "sent"]
             /\ links = [p \in PickingIds |-> IF p \in L THEN {IndexIn(linked, p)} ELSE {}]
             /\ shipments = [i \in 1..Len(linked) |-> EarlierShipment]
             /\ log = [i \in 1..Len(linked) |-> EarlierOkEntry(linked[i])]
    /\ gs = GsNone
    /\ exit_code = -1

SpecLater == InitLater /\ [][Next]_vars

\* ---------------------------------------------------------------- a run after stranding
\* A run that starts on the ERP as earlier runs left it when every picking has
\* one transfer only (2p - 1; tstate is "absent" for the transfer the picking
\* does not have): a picking is untouched, or an earlier run wrote its
\* transfer done (line 441) and then left it without a link, on the failed
\* read of the move lines (458-463), on the empty aggregation (472-477), on
\* the failed create (496, 505-511) or on the failed link write (500-511),
\* which leaves the created shipment behind.  Each left its row in
\* tracking_runs.
StrandKinds == {"move_lines_err", "no_qty", "create_err", "link_err"}

\* the row of the candidate an earlier run left stranded
EarlierStrandedEntry(p, kind) ==
    IF kind \in {"create_err", "link_err"}
    THEN Entry(p, "SO01234", <<"U", "S">>, <<"W", "C", "A">>, "error", "create_link_err",
               0, "", "1Z", "https://ups/1Z", "UPS")
    ELSE Entry(p, "SO01234", <<"U", "S">>, <<"W", "C", "A">>,
               IF kind = "no_qty" THEN "skip" ELSE "error", kind, 0, "",
               NoneV, NoneV, NoneV)

InitStranded ==
    /\ pc = "auth"
    /\ uid = 0
    /\ picking_ids = <<>>
    /\ idx = 0
    /\ loc = NoLoc
    /\ calls = <<>>
    /\ \E S \in SUBSET PickingIds : \E kind \in [S -> StrandKinds] :
          LET stranded == AsSeq(S)
              created == AsSeq({p \in S : kind[p] = "link_err"})
          IN /\ tstate = [t \in TransferIds |->
                            IF \E p \in PickingIds : t = 2 * p THEN "absent"
                            ELSE IF \E p \in S : t = 2 * p - 1 THEN "done" ELSE "sent"]
             /\ links = [p \in PickingIds |-> {}]
             /\ shipments = [i \in 1..Len(created) |-> EarlierShipment]
             /\ log = [i \in 1..Len(stranded) |->
                         EarlierStrandedEntry(stranded[i], kind[stranded[i]])]
    /\ gs = GsNone
    /\ exit_code = -1

SpecStranded == InitStranded /\ [][Next]_vars

\* ---------------------------------------------------------------- sheet sink on
\* values of GSHEETS_BATCH_SIZE after max(1, int(batch_size)) of line 138
BatchSizes == {1, 2}

\* lines 262-274 with ENABLE_GSHEETS set: the constructor raised and gs is
\* None, or it returned a sink with an empty batch.  The transfers of all but
\* the first SheetCandidates pickings are 'done' already.
InitSheets ==
    /\ pc = "auth"
    /\ uid = 0
    /\ picking_ids = <<>>
    /\ idx = 0
    /\ loc = NoLoc
    /\ log = <<>>
    /\ calls = <<>>
    /\ tstate = [t \in TransferIds |-> IF t <= 2 * SheetCandidates THEN "sent" ELSE "done"]
    /\ links = [p \in PickingIds |-> {}]
    /\ shipments = <<>>
    /\ gs \in {GsNone} \cup {GSheetsSink(TRUE, b) : b \in BatchSizes}
    /\ exit_code = -1

SpecSheets == InitSheets /\ [][Next]_vars

\* ================================================================ properties
EntriesOf(p) == SelectSeq(log, LAMBDA e : e.picking_id = p)

CallsOf(p) == SelectSeq(calls, LAMBDA c : c.picking_id = p)

\* the candidate at position i of the batch has reached its terminal outcome
Finished(i) == i < idx \/ (i = idx /\ pc \in {"loop", "done"})

\* the candidate in loc has reached its terminal outcome
CurrentFinished == loc.picking_id # 0 /\ pc \in {"loop", "done"}

Statuses == {"ok", "skip", "error"}

WriteOps == {"write_queue", "create_shipment", "link_shipment"}

NoWritesFor(p) == \A k \in 1..Len(calls) : calls[k].picking_id = p => calls[k].op \notin WriteOps

OneEntry(p, status) == Len(EntriesOf(p)) = 1 /\ EntriesOf(p)[1].status = status

\* the loop goes on to the next candidate when there is one
LoopGoesOn == pc = "loop" /\ (idx < Len(picking_ids) => ENABLED NextPicking)

\* C1: every candidate that has been processed has exactly one row carrying
\* its id in the SQLite sink, with status ok, skip or error, whatever the
\* remote calls did; a candidate still being processed, or not reached yet,
\* has none.
C1_ExactlyOneEntry ==
    \A i \in 1..Len(picking_ids) :
        LET es == EntriesOf(picking_ids[i])
        IN IF Finished(i) THEN Len(es) = 1 /\ es[1].status \in Statuses ELSE es = <<>>

\* C1 witness: a run of two candidates ended, the first on an error and the
\* second on ok.
C1_Witness ==
    /\ pc = "done"
    /\ Len(picking_ids) = 2
    /\ Len(log) = 2
    /\ log[1].status = "error"
    /\ log[2].status = "ok"

\* C2: an ERP write is issued for a candidate only after its tracking call
\* returned without raising and gave both a tracking number and a tracking
\* URL; after a transport failure the candidate has one error row and no
\* write, and the loop goes on.
C2_NoWriteWithoutTracking ==
    /\ LET cs == CallsOf(loc.picking_id)
       IN \A k \in 1..Len(cs) :
             cs[k].op \in WriteOps =>
                 \E j \in 1..(k - 1) : cs[j].op = "mf_get_tracking" /\ cs[j].ok
    /\ ~NoWritesFor(loc.picking_id) =>
          /\ loc.resp.net = "ok"
          /\ loc.mf.out = "return"
          /\ ~Falsy(loc.mf.tracking_number)
          /\ ~Falsy(loc.mf.tracking_url)
    /\ loc.resp.net = "timeout" =>
          /\ OneEntry(loc.picking_id, "error")
          /\ NoWritesFor(loc.picking_id)
          /\ pc = "done" \/ LoopGoesOn

\* C2 witness: the first candidate's tracking call timed out, and the second
\* candidate went on to its writes.
C2_Witness ==
    /\ Len(picking_ids) = 2
    /\ Len(log) >= 1
    /\ log[1].detail = "timeout"
    /\ NoWritesFor(picking_ids[1])
    /\ ~NoWritesFor(picking_ids[2])

\* C3: a candidate whose sale label, origin and name are all absent or empty
\* ends with one skip row and no remote call at all.
C3_BlankReferenceSkipped ==
    /\ (loc.picking_id # 0 /\ loc.blank) =>
          /\ CurrentFinished
          /\ OneEntry(loc.picking_id, "skip")
          /\ CallsOf(loc.picking_id) = <<>>
    /\ \A k \in 1..Len(log) :
          log[k].message = "no_reference" => CallsOf(log[k].picking_id) = <<>>

\* C3 witness: the first candidate had no reference, and the loop is at work
\* on the second one.
C3_Witness ==
    /\ Len(log) = 1
    /\ log[1].message = "no_reference"
    /\ idx = 2
    /\ pc = "queue"

\* a value that is not an (id, label) pair
Malformed(r) == Len(r) # 2

\* a code that is empty once its spaces are trimmed
BlankCode(s) == \A i \in 1..Len(s) : s[i] = " "

\* the candidate in loc stopped after exactly these calls, on one skip row
StoppedAfter(ops) ==
    /\ CurrentFinished
    /\ OneEntry(loc.picking_id, "skip")
    /\ [k \in 1..Len(CallsOf(loc.picking_id)) |-> CallsOf(loc.picking_id)[k].op] = ops

\* the n-th call made for the candidate in loc returned
HopRead(n) ==
    /\ loc.picking_id # 0
    /\ Len(CallsOf(loc.picking_id)) >= n
    /\ CallsOf(loc.picking_id)[n].ok

\* C4: when a hop of the routing chain returns a record whose provider
\* reference or warehouse reference is not a pair, or whose region or
\* service code is blank after trimming, the candidate stops at that hop on
\* one skip row: no later read, no tracking call, no write.
C4_RoutingShortCircuits ==
    /\ (HopRead(1) /\ Malformed(loc.provider)) => StoppedAfter(<<"read_queue">>)
    /\ (HopRead(2) /\ Malformed(loc.wh)) => StoppedAfter(<<"read_queue", "read_provider">>)
    /\ (HopRead(3) /\ (BlankCode(loc.region_code) \/ BlankCode(loc.service_code))) =>
          StoppedAfter(<<"read_queue", "read_provider", "read_warehouse">>)

\* C4 witness: the warehouse of the current candidate has a region code of
\* spaces only, and the candidate has stopped.
C4_Witness ==
    /\ HopRead(3)
    /\ loc.region_code = <<" ">>
    /\ loc.service_code # <<>>
    /\ ~BlankCode(loc.service_code)
    /\ pc = "loop"

\* the candidate in loc ended on one error row that carries the HTTP status,
\* with no write, and the loop goes on
HttpErrorOutcome ==
    /\ OneEntry(loc.picking_id, "error")
    /\ EntriesOf(loc.picking_id)[1].message = "mf_http"
    /\ EntriesOf(loc.picking_id)[1].arg = loc.resp.status
    /\ NoWritesFor(loc.picking_id)
    /\ pc = "done" \/ LoopGoesOn

EmptyCarrierList(resp) ==
    /\ resp.net = "ok"
    /\ resp.status = 200
    /\ resp.body.json = "list"
    /\ resp.body.items # <<>>
    /\ resp.body.items[1].obj
    /\ resp.body.items[1].cr.items = <<>>

\* C6 as stated: for such a response mf_get_tracking returns with tracking
\* number, tracking URL and carrier name unset, and the candidate ends on one
\* error row with no ERP write.
C6_Original ==
    EmptyCarrierList(loc.resp) =>
        /\ loc.mf.out = "return"
        /\ loc.mf.tracking_number = NoneV
        /\ loc.mf.tracking_url = NoneV
        /\ loc.mf.shipping_method = NoneV
        /\ CurrentFinished
        /\ OneEntry(loc.picking_id, "error")
        /\ NoWritesFor(loc.picking_id)

RECURSIVE SumFor(_, _)
\* the sum of qty_done over the move lines of product pid
SumFor(mls, pid) ==
    IF mls = <<>> THEN 0
    ELSE (IF Head(mls).product_id = pid THEN Head(mls).qty_done ELSE 0) + SumFor(Tail(mls), pid)

\* no product of the move lines has a strictly positive summed quantity
NoShippable(mls) ==
    \A i \in 1..Len(mls) : mls[i].product_id = 0 \/ SumFor(mls, mls[i].product_id) <= 0

HasCall(p, op, ok) ==
    \E k \in 1..Len(calls) : calls[k].picking_id = p /\ calls[k].op = op /\ calls[k].ok = ok

\* C7: when the move lines read for a candidate hold no product with a
\* strictly positive summed quantity, no shipment is created and no link is
\* written, the candidate ends on one skip row, and its transfer stays
\* "done"; no shipment is ever created with zero line items.
C7_NothingToShipSkips ==
    /\ (HasCall(loc.picking_id, "read_move_lines", TRUE) /\ NoShippable(loc.move_lines)) =>
          /\ CurrentFinished
          /\ OneEntry(loc.picking_id, "skip")
          /\ ~HasCall(loc.picking_id, "create_shipment", TRUE)
          /\ ~HasCall(loc.picking_id, "create_shipment", FALSE)
          /\ ~HasCall(loc.picking_id, "link_shipment", TRUE)
          /\ ~HasCall(loc.picking_id, "link_shipment", FALSE)
          /\ tstate[loc.transfer_id] = "done"
    /\ \A k \in 1..Len(log) :
          log[k].message = "no_qty" =>
              /\ ~HasCall(log[k].picking_id, "create_shipment", TRUE)
              /\ \E j \in 1..Len(calls) :
                    /\ calls[j].picking_id = log[k].picking_id
                    /\ calls[j].op = "write_queue"
                    /\ calls[j].ok
                    /\ tstate[calls[j].arg] = "done"
    /\ \A s \in 1..Len(shipments) : shipments[s].shipment_line_ids # <<>>

\* C7 witness: the move lines of the first candidate exist but name no
\* product; the candidate was skipped with its transfer done, and the second
\* candidate got a shipment.
C7_Witness ==
    /\ Len(log) = 2
    /\ log[1].message = "no_qty"
    /\ log[2].status = "ok"
    /\ Len(shipments) = 1
    /\ tstate[1] = "done"

OpsOf(p) == [k \in 1..Len(CallsOf(p)) |-> CallsOf(p)[k].op]

FullChain ==
    <<"read_queue", "read_provider", "read_warehouse", "mf_get_tracking", "write_queue",
      "read_move_lines", "create_shipment", "link_shipment">>

\* C8: a candidate with an ok row made exactly the calls of the full chain,
\* each of which returned, in the order mark-done, create, link; the
\* transfer written is done; the one shipment created for it is named by the
\* row's tracking number and is the one linked to the candidate; the row
\* carries tracking number, URL and carrier name as the provider gave them,
\* and its message counts the line items sent in the create.
C8_OkMeansWrittenBack ==
    /\ \A k \in 1..Len(log) :
          log[k].status = "ok" =>
              LET p == log[k].picking_id
                  cs == CallsOf(p)
              IN /\ OpsOf(p) = FullChain
                 /\ \A j \in 1..Len(cs) : cs[j].ok
                 /\ cs[5].arg = 2 * p - 1
                 /\ tstate[cs[5].arg] = "done"
                 /\ cs[8].arg \in 1..Len(shipments)
                 /\ links[p] = {cs[8].arg}
                 /\ shipments[cs[8].arg].name = log[k].tracking_number
                 /\ shipments[cs[8].arg].tracking_url = log[k].tracking_url
                 /\ ~Falsy(log[k].tracking_number)
                 /\ ~Falsy(log[k].tracking_url)
                 /\ log[k].arg = Len(shipments[cs[8].arg].shipment_line_ids)
    /\ (CurrentFinished /\ OneEntry(loc.picking_id, "ok")) =>
          LET e == EntriesOf(loc.picking_id)[1]
              c == loc.resp.body.items[1].cr.items[1]
          IN /\ e.tracking_number = c.reference
             /\ e.tracking_url = c.trackingUrl
             /\ e.shipping_method = c.carrierName
             /\ loc.transfer_id = 2 * loc.picking_id - 1

\* C8 witness: two candidates ended on ok, the second with two line items.
C8_Witness ==
    /\ pc = "done"
    /\ Len(log) = 2
    /\ log[1].status = "ok"
    /\ log[2].status = "ok"
    /\ log[2].arg = 2
    /\ Len(shipments) = 2

\* no call was made for picking p after call k
LastCallOf(p, k) == \A j \in (k + 1)..Len(calls) : calls[j].picking_id # p

\* C9: when the write marking the transfer done raises, the candidate ends on
\* one error row and makes no further call: no move-line read, no create, no
\* link.
C9_FailedMarkDoneStops ==
    \A k \in 1..Len(calls) :
        (calls[k].op = "write_queue" /\ ~calls[k].ok) =>
            /\ OneEntry(calls[k].picking_id, "error")
            /\ LastCallOf(calls[k].picking_id, k)

\* C9 witness: the first candidate's write failed and the loop is at work on
\* the second one.
C9_Witness ==
    /\ HasCall(1, "write_queue", FALSE)
    /\ Len(picking_ids) = 2
    /\ idx = 2
    /\ pc = "movelines"

\* C10: when the create or the link write raises, the candidate ends on one
\* error row, and the transfer marked done before it stays done for the rest
\* of the run: it is written once, and no call follows for the candidate.
C10_NoRollback ==
    \A k \in 1..Len(calls) :
        (calls[k].op \in {"create_shipment", "link_shipment"} /\ ~calls[k].ok) =>
            LET p == calls[k].picking_id
                t == CallsOf(p)[5].arg
            IN /\ OneEntry(p, "error")
               /\ LastCallOf(p, k)
               /\ CallsOf(p)[5].op = "write_queue"
               /\ tstate[t] = "done"
               /\ Cardinality({j \in 1..Len(calls) :
                                 calls[j].op = "write_queue" /\ calls[j].arg = t}) = 1

\* C10 witness: a run of two candidates ended; the link write of the first
\* and the create of the second had failed.
C10_Witness ==
    /\ pc = "done"
    /\ HasCall(1, "link_shipment", FALSE)
    /\ HasCall(2, "create_shipment", FALSE)
    /\ tstate[1] = "done"
    /\ tstate[3] = "done"

\* calls made while a candidate was being processed
InLoop(c) == c.picking_id # 0

\* every step of a run moves it forward: the run cannot go on for ever
Measure == Len(calls) + Len(log) + idx + (IF pc \in {"done", "exited"} THEN 1 ELSE 0)

\* the run is not stuck: the loop takes the next candidate or ends, and a
\* candidate under way has a next step
GoesOn ==
    /\ pc = "loop" => IF idx < Len(picking_ids) THEN ENABLED NextPicking ELSE ENABLED Finish
    /\ pc \notin {"loop", "done", "exited"} => ENABLED Next

CandidateLocal ==
    /\ GoesOn
    /\ \A k \in 1..Len(calls) :
          (InLoop(calls[k]) /\ ~calls[k].ok) =>
              /\ pc # "exited"
              /\ exit_code \in {-1, 0}
              /\ LastCallOf(calls[k].picking_id, k)
              /\ LET i == CHOOSE i \in 1..Len(picking_ids) :
                              picking_ids[i] = calls[k].picking_id
                 IN /\ Finished(i)
                    /\ Len(EntriesOf(picking_ids[i])) = 1
                    /\ EntriesOf(picking_ids[i])[1].status = "error"
    /\ pc = "done" =>
          /\ exit_code = 0
          /\ idx = Len(picking_ids)
          /\ \A i \in 1..Len(picking_ids) : Len(EntriesOf(picking_ids[i])) = 1
          /\ picking_ids = <<>> =>
                /\ Len(log) = 1
                /\ log[1].status = "skip"
                /\ log[1].message = "no_pickings"
    /\ exit_code = 0 => pc = "done"

\* C11: a remote call that fails while a candidate is processed (a routing
\* read, the tracking call, the mark-done write, the move-line read, the
\* create, the link write) ends that candidate on one error row and nothing
\* else: the run is never aborted by it, every step moves the run forward and
\* no state short of the end is stuck, so every later candidate gets its own
\* row and the run ends with exit code 0; a run that finds no candidate ends
\* with exit code 0 as well.
C11_FailuresAreCandidateLocal ==
    /\ []CandidateLocal
    /\ [][Measure' > Measure]_vars

\* C11 witness: the run of two candidates ended with exit code 0; the first
\* candidate's queue read had failed and the second one ended on ok.
C11_Witness ==
    /\ pc = "done"
    /\ exit_code = 0
    /\ HasCall(1, "read_queue", FALSE)
    /\ Len(log) = 2
    /\ log[1].status = "error"
    /\ log[2].status = "ok"

RunFatalOps == {"authenticate", "search", "read_pickings"}

\* the run stopped on one run-level error row, with a non-zero exit code,
\* before any candidate, tracking call or ERP write
StoppedEarly ==
    /\ pc = "exited"
    /\ exit_code > 0
    /\ Len(log) = 1
    /\ log[1].status = "error"
    /\ log[1].picking_id = 0
    /\ idx = 0
    /\ loc = NoLoc
    /\ \A k \in 1..Len(calls) : calls[k].op \in RunFatalOps

\* the run was aborted, and the ERP is as it was
Aborted ==
    /\ StoppedEarly
    /\ \A t \in TransferIds : tstate[t] = "sent"
    /\ \A p \in PickingIds : links[p] = {}
    /\ shipments = <<>>

\* the last call was the authentication, the search or the read of the
\* pickings, and it raised or (authentication) gave no uid
RunFatalFailure ==
    /\ calls # <<>>
    /\ LET last == calls[Len(calls)]
       IN /\ last.op \in RunFatalOps
          /\ ~last.ok \/ (last.op = "authenticate" /\ uid = 0)

\* C12: when the authentication raises or gives an empty uid, or the search
\* or the read of the pickings raises, the run is aborted: one run-level
\* error row without candidate id, no candidate processed, no tracking call,
\* no ERP write, and a non-zero exit code; and nothing else aborts the run.
C12_RunFatalAborts ==
    /\ RunFatalFailure => Aborted
    /\ pc = "exited" => RunFatalFailure
    /\ exit_code > 0 => pc = "exited"

\* C12 witness: the search found candidates and the read of their records
\* raised.
C12_Witness ==
    /\ pc = "exited"
    /\ Len(calls) = 3
    /\ calls[3].op = "read_pickings"
    /\ ~calls[3].ok
    /\ picking_ids # <<>>

\* the response is a 2xx JSON array whose first element is an object, whose
\* first carrier reference gives a tracking number and a tracking URL, and
\* whose first event has an eventDateTime that fromisoformat cannot parse
UnparsableDate(resp) ==
    /\ resp.net = "ok"
    /\ resp.status = 200
    /\ resp.body.json = "list"
    /\ resp.body.items # <<>>
    /\ resp.body.items[1].obj
    /\ resp.body.items[1].cr.items # <<>>
    /\ ~Falsy(resp.body.items[1].cr.items[1].reference)
    /\ ~Falsy(resp.body.items[1].cr.items[1].trackingUrl)
    /\ resp.body.items[1].events.items # <<>>
    /\ resp.body.items[1].events.items[1].eventDateTime # <<>>
    /\ ~IsoParsable(resp.body.items[1].events.items[1].eventDateTime)

\* C16 as stated: for such a response mf_get_tracking returns the tracking
\* number and URL with the ship date unset, and the candidate goes on to the
\* write-back steps instead of ending on an error row.
C16_Original ==
    UnparsableDate(loc.resp) =>
        /\ loc.mf.out = "return"
        /\ loc.mf.tracking_number = loc.resp.body.items[1].cr.items[1].reference
        /\ loc.mf.tracking_url = loc.resp.body.items[1].cr.items[1].trackingUrl
        /\ loc.mf.date_shipped = <<>>
        /\ EntriesOf(loc.picking_id) # <<>> => EntriesOf(loc.picking_id)[1].message # "mf_error"
        /\ HasCall(loc.picking_id, "write_queue", TRUE)
              \/ HasCall(loc.picking_id, "write_queue", FALSE)
              \/ pc = "markdone"

\* the body of a 2xx response is not valid JSON, is not an array, is an empty
\* array, or is an array whose first element is not an object
MalformedPayload(resp) ==
    /\ resp.net = "ok"
    /\ 200 <= resp.status /\ resp.status <= 299
    /\ \/ resp.body.json # "list"
       \/ resp.body.items = <<>>
       \/ ~resp.body.items[1].obj

\* C17 as stated: for every such payload mf_get_tracking returns the
\* all-unset result and the candidate's row is the 'No tracking info' one.
C17_Original ==
    MalformedPayload(loc.resp) =>
        /\ loc.mf = MfReturn(NoneV, NoneV, NoneV, <<>>)
        /\ OneEntry(loc.picking_id, "error")
        /\ EntriesOf(loc.picking_id)[1].message = "no_tracking"

\* lines is the aggregation of the move lines mls by product id
IsAggregationOf(lines, mls) ==
    /\ \A i \in 1..Len(lines) :
          /\ lines[i].product_id # 0
          /\ lines[i].qty > 0
          /\ lines[i].qty = SumFor(mls, lines[i].product_id)
    /\ \A i, j \in 1..Len(lines) : lines[i].product_id = lines[j].product_id => i = j
    /\ \A m \in 1..Len(mls) :
          (mls[m].product_id # 0 /\ SumFor(mls, mls[m].product_id) > 0) =>
              \E i \in 1..Len(lines) : lines[i].product_id = mls[m].product_id

\* C18: the line items sent in the create are the aggregation of the
\* candidate's move lines by product id: one line per product whose summed
\* qty_done is positive, carrying that sum; no product twice, none with a
\* non-positive sum, nothing from a move line without a product id.
C18_LinesAreAggregation ==
    /\ pc \in {"create", "link"} => IsAggregationOf(loc.lines_cmds, loc.move_lines)
    /\ loc.shipment_id # 0 =>
          /\ IsAggregationOf(shipments[loc.shipment_id].shipment_line_ids, loc.move_lines)
          /\ shipments[loc.shipment_id].shipment_line_ids = loc.lines_cmds

\* C18 witness: a shipment was created from three move lines, one of them
\* without a product, and has two line items; an earlier shipment carries the
\* sum of two move lines of one product.
C18_Witness ==
    /\ loc.shipment_id = 2
    /\ Len(loc.move_lines) = 3
    /\ Len(shipments[2].shipment_line_ids) = 2
    /\ Len(shipments[1].shipment_line_ids) = 1
    /\ shipments[1].shipment_line_ids[1].qty = 3

\* the record was bound by the loop
Bound == loc.picking_id # 0

\* the sale_id of the record is an (id, label) pair with a non-empty label
HasSaleLabel(p) == Len(p.sale_id) = 2 /\ p.sale_id[2] \notin {NoneV, ""}

Present(s) == s \notin {NoneV, ""}

\* C19: the reference is the sale label when sale_id is a pair with a
\* non-empty label, else the origin when non-empty, else the name; it is the
\* reference of every row of the candidate and of the provider query; the
\* candidate is skipped for want of a reference exactly when all three are
\* absent, and then no call is made.
C19_ReferencePrecedence ==
    Bound =>
        LET p == loc.p
            es == EntriesOf(loc.picking_id)
        IN /\ HasSaleLabel(p) => loc.reference = p.sale_id[2]
           /\ (~HasSaleLabel(p) /\ Present(p.origin)) => loc.reference = p.origin
           /\ (~HasSaleLabel(p) /\ ~Present(p.origin) /\ Present(p.name)) =>
                 loc.reference = p.name
           /\ (~HasSaleLabel(p) /\ ~Present(p.origin) /\ ~Present(p.name)) <=>
                 (es # <<>> /\ es[1].message = "no_reference")
           /\ (es # <<>> /\ es[1].message = "no_reference") =>
                 /\ es[1].status = "skip"
                 /\ CallsOf(loc.picking_id) = <<>>
           /\ (es # <<>> /\ es[1].message # "no_reference") => es[1].reference = loc.reference
           /\ HasCall(loc.picking_id, "mf_get_tracking", TRUE)
                 \/ HasCall(loc.picking_id, "mf_get_tracking", FALSE) =>
                 loc.params.reference = loc.reference

\* C19 witness: the record has a malformed sale_id, an origin and a name; the
\* provider was queried with the origin and the candidate ended on ok.
C19_Witness ==
    /\ pc = "done"
    /\ loc.p.sale_id = <<7>>
    /\ loc.p.origin = "ORIGIN"
    /\ loc.p.name = "WH/OUT/1"
    /\ loc.params.reference = "ORIGIN"
    /\ OneEntry(1, "ok")

TransferOps == {"read_queue", "write_queue"}

\* C20: of a candidate's ordered transfer list only the first element is
\* read or written: the queue read and the 'done' write both target it, it
\* is 'done' exactly when that write returned, and every other transfer, of
\* this candidate or of another, keeps its state.
C20_OnlyFirstTransfer ==
    LET ts == loc.p.tpl_transfer_ids
    IN /\ \A k \in 1..Len(calls) :
             calls[k].op \in TransferOps => (ts # <<>> /\ calls[k].arg = ts[1])
       /\ (Bound /\ pc \notin {"loop", "done"}) => loc.transfer_id = ts[1]
       /\ \A t \in TransferIds :
             tstate[t] = (IF /\ ts # <<>>
                             /\ t = ts[1]
                             /\ HasCall(loc.picking_id, "write_queue", TRUE)
                          THEN "done" ELSE "sent")

\* C20 witness: the candidate's transfers are 2 then 1; the run ended on ok
\* with transfer 2 done and transfer 1 still sent.
C20_Witness ==
    /\ pc = "done"
    /\ loc.p.tpl_transfer_ids = <<2, 1>>
    /\ OneEntry(1, "ok")
    /\ tstate[2] = "done"
    /\ tstate[1] = "sent"

\* picking p was linked to a shipment when the run started
LinkedBefore(p) == links[p] # {} /\ ~HasCall(p, "link_shipment", TRUE)

\* C13: a picking that an earlier run linked to a shipment is not selected
\* by this run: no read, no tracking call, no write and no row is made for
\* it, it keeps its one shipment, and no shipment is created but for the
\* candidates of this run; a picking linked by this run gets no further call.
\* The state after the run is again one in which the picking is linked, so
\* the same holds for every later run.
C13_LinkedNeverReselected ==
    /\ \A p \in PickingIds :
          LinkedBefore(p) =>
              /\ \A i \in 1..Len(picking_ids) : picking_ids[i] # p
              /\ CallsOf(p) = <<>>
              /\ EntriesOf(p) = <<EarlierOkEntry(p)>>
              /\ Cardinality(links[p]) = 1
    /\ \A p \in PickingIds :
          /\ Cardinality(links[p]) <= 1
          /\ Cardinality({k \in 1..Len(calls) :
                            calls[k].picking_id = p /\ calls[k].op = "create_shipment"}) <= 1
    /\ \A k \in 1..Len(calls) :
          (calls[k].op = "link_shipment" /\ calls[k].ok) => LastCallOf(calls[k].picking_id, k)
    /\ Len(shipments) =
          Cardinality({p \in PickingIds : LinkedBefore(p)})
          + Cardinality({k \in 1..Len(calls) : calls[k].op = "create_shipment" /\ calls[k].ok})

\* C13 witness: picking 1 was linked by an earlier run while its second
\* transfer is still 'sent'; this run ended after bringing picking 2 to ok,
\* and made no call for picking 1.
C13_Witness ==
    /\ pc = "done"
    /\ LinkedBefore(1)
    /\ tstate[2] = "sent"
    /\ HasCall(2, "link_shipment", TRUE)
    /\ CallsOf(1) = <<>>
    /\ Len(shipments) = 2

\* the rows handed to the sheet sink: one per row of the SQLite sink
SinkRows == [i \in 1..Len(log) |-> GsRow(log[i])]

C15_Original ==
    (gs.on /\ ~gs.failed) =>
        /\ Len(gs.batch) < gs.batch_size
        /\ pc \in {"done", "exited"} =>
              /\ gs.batch = <<>>
              /\ gs.sheet = SinkRows

\* ---- C21
\* picking p had its only transfer written done by an earlier run and has no
\* shipment
StrandedBefore(p) ==
    /\ tstate[2 * p - 1] = "done"
    /\ tstate[2 * p] = "absent"
    /\ links[p] = {}
    /\ ~HasCall(p, "write_queue", TRUE)

\* this run wrote the only transfer of picking p done and ended the candidate
\* without a link
StrandedNow(p) ==
    /\ HasCall(p, "write_queue", TRUE)
    /\ \/ HasCall(p, "read_move_lines", FALSE)
       \/ \E i \in 1..Len(log) : log[i].picking_id = p /\ log[i].message = "no_qty"
       \/ HasCall(p, "create_shipment", FALSE)
       \/ HasCall(p, "link_shipment", FALSE)

\* C21: a picking whose only transfer an earlier run wrote done and which it
\* left without a shipment is not selected by this run: it is not among the
\* ids of the search, no call is made and no row is written for it, it stays
\* without a link, and every shipment created by this run is created for a
\* candidate of this run.  A candidate this run strands is left in the same
\* state (transfer done, no link, outside the search domain), so the same holds
\* for every later run.
C21_StrandedNeverReselected ==
    /\ \A p \in PickingIds :
          StrandedBefore(p) =>
              /\ ~Selectable(p)
              /\ \A i \in 1..Len(picking_ids) : picking_ids[i] # p
              /\ CallsOf(p) = <<>>
              /\ Len(EntriesOf(p)) = 1
              /\ EntriesOf(p)[1].message \in {"move_lines_err", "no_qty", "create_link_err"}
    /\ \A p \in PickingIds :
          StrandedNow(p) =>
              /\ tstate[2 * p - 1] = "done"
              /\ tstate[2 * p] = "absent"
              /\ links[p] = {}
              /\ ~Selectable(p)
              /\ CallsOf(p)[Len(CallsOf(p))].op
                    \in {"read_move_lines", "create_shipment", "link_shipment"}
    /\ \A k \in 1..Len(calls) :
          calls[k].op \in {"create_shipment", "link_shipment"} =>
              /\ \E i \in 1..Len(picking_ids) : picking_ids[i] = calls[k].picking_id
              /\ Cardinality({j \in 1..Len(calls) :
                                 calls[j].op = calls[k].op
                                 /\ calls[j].picking_id = calls[k].picking_id}) = 1

\* C21 witness: picking 1 was stranded by an earlier run on a failed link
\* write, whose shipment is still there; this run ended after stranding
\* picking 2 on a failed create, and made no call for picking 1.
C21_Witness ==
    /\ pc = "done"
    /\ StrandedBefore(1)
    /\ StrandedNow(2)
    /\ HasCall(2, "create_shipment", FALSE)
    /\ CallsOf(1) = <<>>
    /\ Len(shipments) = 1

\* ---- C22
\* the create calls of the run that returned, in order: the n-th one created
\* the shipment with id n
OkCreates == SelectSeq(calls, LAMBDA c : c.op = "create_shipment" /\ c.ok)

\* ids of the shipments created for picking p during the run
CreatedFor(p) == {n \in 1..Len(OkCreates) : OkCreates[n].picking_id = p}

\* C22 as the claim states it: at every candidate's terminal outcome, every
\* shipment created for it during the run is linked to it, the case of a
\* create that returned followed by a link write that raised included.
C22_Original ==
    /\ Len(shipments) = Len(OkCreates)
    /\ \A i \in 1..Len(picking_ids) :
          Finished(i) => CreatedFor(picking_ids[i]) \subseteq links[picking_ids[i]]
====
